---------------------------- MODULE Spec2Model ----------------------------
(***************************************************************************)
(* Crisis-response simulation: the world engine (src/env/world.py,         *)
(* src/env/agents.py) and the grid pathing utility (src/tools/routing.py). *)
(*                                                                         *)
(* The world is the CrisisModel object.  One call of step() is the chain   *)
(* StepBegin, ExecuteCommand (once per planned command), StepEnd; the      *)
(* engine is single-threaded, so a state with phase = "exec" is a point    *)
(* inside step() and a state with phase = "idle" is a point between two    *)
(* calls.  plan holds the commands of planned_commands that the loop of    *)
(* _execute_commands has still to run.  set_plan() only reads the length   *)
(* of the list it is given and the loop reads each element once, so a      *)
(* specification may leave an element open (Unfixed) and draw the command  *)
(* when the loop reaches it; SpecPlan fixes the whole list at set_plan().  *)
(*                                                                         *)
(* Floats: battery is counted in half units (0.5), everything else the     *)
(* code computes is integral.  random.random() < p is a Bernoulli draw;    *)
(* only its possible outcomes matter here.                                 *)
(***************************************************************************)
EXTENDS Integers, Sequences, FiniteSets, TLC

(***************************************************************************)
(* Bounds of the model.                                                    *)
(***************************************************************************)
\* number of step() calls explored
MaxTime == 3
\* longest command list given to set_plan()
MaxCmds == 2
\* longest command list that is fixed at set_plan()
MaxPlan == 3
\* "survivors" of the configuration of a triage run
TriageSurvivors == 7
\* Survivor(health=...) at construction; world.py:107 passes 100.0, scaled
InitHealth == 2
\* DroneAgent(battery=...) in half units; world.py:114 passes 100.0, scaled
InitBattery == 3
\* TruckAgent(water=...); world.py:116 passes 100.0, scaled
InitWater == 15

(***************************************************************************)
(* Program constants.                                                      *)
(***************************************************************************)
\* world.py:268, percent
FireSpreadPercent == 5
\* world.py:212
ExtinguishWater == 10
\* world.py:204, half units (1.0)
MoveBattery == 2
\* dynamics.py:40, half units
ScoutBattery == 4
\* agents.py:16, half units (0.5)
IdleBattery == 1
\* world.py:246
HospitalCapacity == 5
\* world.py:116, TruckAgent(water=100.0)
TruckWater == 100
\* agents.py:63
HealthDecay == 1

(***************************************************************************)
(* The configuration the world is built from (CrisisModel.__init__ and     *)
(* _initialize_world).  Cells are <<x, y>>.                                *)
(*      y=1:  fire    rubble  hospital                                     *)
(*      y=0:  depot   free    hospital                                     *)
(***************************************************************************)
Width == 3
Height == 2
Cells == (0 .. Width - 1) \X (0 .. Height - 1)
Depot == <<0, 0>>
Hospitals == << <<2, 1>>, <<2, 0>> >>
HospitalCells == {Hospitals[i] : i \in 1 .. Len(Hospitals)}
Rubble == {<<1, 1>>}
InitialFires == {<<0, 1>>}
ServiceRates == {30, 100}

Drones == {"drone_0"}
Medics == {"medic_0"}
Trucks == {"truck_0"}
Units == Drones \cup Medics \cup Trucks
SurvivorList == <<"survivor_0", "survivor_1">>
Survivors == {SurvivorList[i] : i \in 1 .. Len(SurvivorList)}
Agents == Units \cup Survivors
None == "none"
NoTime == -1

\* cells a survivor may be placed on by _initialize_world
SpawnCells(initial_fires) ==
    {c \in Cells : c \notin initial_fires /\ c \notin Rubble
                    /\ c \notin HospitalCells /\ c # Depot}

Max(a, b) == IF a >= b THEN a ELSE b

Range(q) == {q[i] : i \in 1 .. Len(q)}

(***************************************************************************)
(* Commands.  cmd.get(k) of a missing key is None: "none" for a string,    *)
(* the empty tuple for "to" (None and [] are both falsy at world.py:175).  *)
(* type "non_dict" stands for a list element that is no dict, on which     *)
(* cmd.get raises.                                                         *)
(***************************************************************************)
AgentIds == Agents \cup {"ghost_9"}
OutOfBounds == {<<-1, 0>>, <<0, Height>>, <<Width, 0>>, <<0, -1>>}
MoveTargets == Cells \cup OutOfBounds \cup {<<>>, <<0>>, <<0, 0, 0>>}
ActionNames == {"extinguish", "pickup_survivor", "drop_at_hospital", "scout"}
Move(a, t) == [agent_id |-> a, type |-> "move", to |-> t, action_name |-> None]
Act(a, n) == [agent_id |-> a, type |-> "act", to |-> <<>>, action_name |-> n]
NonDict == [agent_id |-> None, type |-> "non_dict", to |-> <<>>, action_name |-> None]
\* an element of a command list that the model leaves open until the loop
\* of _execute_commands reaches it
Unfixed == [agent_id |-> None, type |-> "unfixed", to |-> <<>>, action_name |-> None]
MoveCommands == {Move(a, t) : a \in AgentIds, t \in MoveTargets}
ActCommands == {Act(a, n) : a \in AgentIds, n \in ActionNames}
OtherCommands ==
    {[agent_id |-> a, type |-> "wait", to |-> <<>>, action_name |-> None] :
        a \in AgentIds} \cup {NonDict}
\* every command the executor can be given
AllCommands == MoveCommands \cup ActCommands \cup OtherCommands

\* the commands the explored plans are made of: a fire truck's and a drone's,
\* and rejected ones
Commands ==
    {Move("truck_0", <<0, 1>>), Move("truck_0", <<1, 0>>), Move("truck_0", <<1, 1>>),
     Move("truck_0", <<0>>), Act("truck_0", "extinguish"),
     Move("drone_0", <<1, 0>>), Move("drone_0", <<-1, 0>>),
     Act("medic_0", "extinguish"), NonDict}
\* the lengths of the explored plans
PlanLengths == 0 .. MaxCmds

\* the commands of a medic's rescue run, and the lengths of its plans
RescueCommands ==
    {Move("medic_0", <<1, 0>>), Move("medic_0", <<0, 1>>),
     Move("medic_0", <<2, 1>>), Move("medic_0", <<2, 0>>),
     Act("medic_0", "pickup_survivor"), Act("medic_0", "drop_at_hospital"),
     Move("survivor_1", <<2, 1>>), Act("truck_0", "drop_at_hospital")}
RescuePlanLengths == {0, 4}

\* a configuration with more survivors than a hospital's queue has places:
\* "survivors": TriageSurvivors
TriageSurvivorList ==
    [i \in 1 .. TriageSurvivors |-> "survivor_" \o ToString(i - 1)]
\* one round of a medic that shuttles between the survivors' cell and a
\* hospital, and the command lists of a triage run: any number of rounds up
\* to one for each survivor
ShuttleRound ==
    <<Move("medic_0", <<1, 0>>), Act("medic_0", "pickup_survivor"),
      Move("medic_0", <<2, 0>>), Act("medic_0", "drop_at_hospital")>>
Shuttle(rounds) ==
    [i \in 1 .. Len(ShuttleRound) * rounds |->
        ShuttleRound[((i - 1) % Len(ShuttleRound)) + 1]]
TriagePlans == {Shuttle(rounds) : rounds \in 0 .. TriageSurvivors}

\* the command lists that are fixed at set_plan(): every list of at most
\* MaxPlan of these commands
PlanCommands ==
    {Move("truck_0", <<0, 1>>), Move("truck_0", <<1, 0>>), Move("truck_0", <<1, 1>>),
     Move("drone_0", <<1, 0>>), NonDict}
Plans == UNION {[1 .. n -> PlanCommands] : n \in 0 .. MaxPlan}

(***************************************************************************)
(* The pathing utility, src/tools/routing.py.  A call is                   *)
(* shortest_path(model_like, start, goal) with the default avoid; the grid *)
(* is model_like.width, .height and .cell_types, kept by cell <<x, y>>.    *)
(***************************************************************************)
\* most cells of an explored grid that hold rubble
MaxBlocked == 2
GridSide == 4
Avoid == {"fire", "rubble"}
NoCost == -1
NoParent == <<-1, -1>>
NoResult == [status |-> "none", path |-> <<>>, cost |-> NoCost]
NoCall ==
    [width |-> 0, height |-> 0, cell_types |-> <<>>, start |-> <<0, 0>>,
     goal |-> <<0, 0>>, pop_order |-> "tuple", result |-> NoResult]

GridCells(W, H) == (0 .. W - 1) \X (0 .. H - 1)

Abs(n) == IF n < 0 THEN -n ELSE n

\* routing.manhattan
Manhattan(a, b) == Abs(a[1] - b[1]) + Abs(a[2] - b[2])

VARIABLES
    phase,                    \* "idle", "planned" (set_plan called), "exec" (inside step)
    planned,                  \* commands of planned_commands still to run
    plan,                     \* those commands, in the order of the list
    time,
    fires,
    hospital_queues,          \* hospital cell -> sequence of survivor ids
    hospital_service_rate,    \* percent
    rescued, deaths, fires_extinguished, energy_used,
    tool_calls, invalid_json, hospital_overflow_events,
    rescue_times,
    pos,                      \* agent id -> cell
    cell_order,               \* the survivors in the order the grid lists them
    battery, water,
    carrying, carrying_survivor,
    survivors,                \* id -> [health, picked, rescued, dead, picked_time]
    drop_time, drop_len,      \* history: tick of the drop, queue length after it
    routing,                  \* a call of shortest_path: its arguments and result
    twin                      \* a second CrisisModel, built in another process
                              \* from the same configuration and seed and given
                              \* the same plans and the same random draws

world_vars ==
    <<time, fires, hospital_queues, hospital_service_rate, rescued, deaths,
      fires_extinguished, energy_used, tool_calls, invalid_json,
      hospital_overflow_events, rescue_times, pos, cell_order, battery, water,
      carrying, carrying_survivor, survivors, drop_time, drop_len>>
vars == <<phase, planned, plan, world_vars, routing, twin>>

\* the CrisisModel object; process stands for what differs from one run of
\* the program to another whatever the seed is: the hash seed of str, the
\* addresses of the objects, the clock
self ==
    [time |-> time, fires |-> fires, hospital_queues |-> hospital_queues,
     hospital_service_rate |-> hospital_service_rate,
     rescued |-> rescued, deaths |-> deaths,
     fires_extinguished |-> fires_extinguished, energy_used |-> energy_used,
     tool_calls |-> tool_calls, invalid_json |-> invalid_json,
     hospital_overflow_events |-> hospital_overflow_events,
     rescue_times |-> rescue_times, pos |-> pos, cell_order |-> cell_order,
     battery |-> battery, water |-> water, carrying |-> carrying,
     carrying_survivor |-> carrying_survivor, survivors |-> survivors,
     drop_time |-> drop_time, drop_len |-> drop_len,
     process |-> 1]

\* the object after a method has run; the engine never calls the pathing
\* utility
Becomes(w) ==
    /\ routing' = routing
    /\ time' = w.time
    /\ fires' = w.fires
    /\ hospital_queues' = w.hospital_queues
    /\ hospital_service_rate' = w.hospital_service_rate
    /\ rescued' = w.rescued
    /\ deaths' = w.deaths
    /\ fires_extinguished' = w.fires_extinguished
    /\ energy_used' = w.energy_used
    /\ tool_calls' = w.tool_calls
    /\ invalid_json' = w.invalid_json
    /\ hospital_overflow_events' = w.hospital_overflow_events
    /\ rescue_times' = w.rescue_times
    /\ pos' = w.pos
    /\ cell_order' = w.cell_order
    /\ battery' = w.battery
    /\ water' = w.water
    /\ carrying' = w.carrying
    /\ carrying_survivor' = w.carrying_survivor
    /\ survivors' = w.survivors
    /\ drop_time' = w.drop_time
    /\ drop_len' = w.drop_len

(***************************************************************************)
(* The command executor.  Every operator takes the world w and returns the *)
(* world after the method.                                                 *)
(***************************************************************************)
InBounds(x, y) == 0 <= x /\ x < Width /\ 0 <= y /\ y < Height

\* MultiGrid.move_agent: the agent leaves its cell's list and is appended to
\* the target's, so a moved survivor is listed after those already there
Reordered(order, a) ==
    IF a \in Range(order)
    THEN SelectSeq(order, LAMBDA s : s # a) \o <<a>>
    ELSE order

\* a mover that does not look for rubble
MoveAgentOntoRubble(w, agent, target_pos) ==
    LET x == target_pos[1]
        y == target_pos[2]
    IN  IF ~InBounds(x, y) THEN w
        ELSE [w EXCEPT
                !.pos[agent] = <<x, y>>,
                !.cell_order = Reordered(@, agent),
                !.battery = [d \in Drones |->
                               IF d = agent THEN Max(0, @[d] - MoveBattery) ELSE @[d]],
                !.energy_used = @ + 1]

\* a mover that leaves a drone whose battery is empty where it is
MoveAgentIfCharged(w, agent, target_pos) ==
    LET x == target_pos[1]
        y == target_pos[2]
    IN  IF ~InBounds(x, y) THEN w
        ELSE IF <<x, y>> \in Rubble THEN w
        ELSE IF agent \in Drones /\ w.battery[agent] = 0 THEN w
        ELSE [w EXCEPT
                !.pos[agent] = <<x, y>>,
                !.cell_order = Reordered(@, agent),
                !.battery = [d \in Drones |->
                               IF d = agent THEN Max(0, @[d] - MoveBattery) ELSE @[d]],
                !.energy_used = @ + 1]

\* CrisisModel._move_agent
MoveAgent(w, agent, target_pos) ==
    LET x == target_pos[1]
        y == target_pos[2]
    IN  IF ~InBounds(x, y) THEN w
        ELSE IF <<x, y>> \in Rubble THEN w
        ELSE [w EXCEPT
                !.pos[agent] = <<x, y>>,
                !.cell_order = Reordered(@, agent),
                !.battery = [d \in Drones |->
                               IF d = agent THEN Max(0, @[d] - MoveBattery) ELSE @[d]],
                !.energy_used = @ + 1]

\* an extinguisher that subtracts without the floor
ExtinguishFireUnfloored(w, truck_agent) ==
    LET p == w.pos[truck_agent]
    IN  IF p \in w.fires /\ w.water[truck_agent] > 0
        THEN [w EXCEPT
                !.fires = @ \ {p},
                !.water[truck_agent] = @ - ExtinguishWater,
                !.fires_extinguished = @ + 1]
        ELSE w

\* an extinguisher that does not look at the water level
ExtinguishFireDry(w, truck_agent) ==
    LET p == w.pos[truck_agent]
    IN  IF p \in w.fires
        THEN [w EXCEPT
                !.fires = @ \ {p},
                !.water[truck_agent] = Max(0, @ - ExtinguishWater),
                !.fires_extinguished = @ + 1]
        ELSE w

\* an extinguisher that uses half the water
ExtinguishFireHalf(w, truck_agent) ==
    LET p == w.pos[truck_agent]
    IN  IF p \in w.fires /\ w.water[truck_agent] > 0
        THEN [w EXCEPT
                !.fires = @ \ {p},
                !.water[truck_agent] = Max(0, @ - ExtinguishWater \div 2),
                !.fires_extinguished = @ + 1]
        ELSE w

\* CrisisModel._extinguish_fire
ExtinguishFire(w, truck_agent) ==
    LET p == w.pos[truck_agent]
    IN  IF p \in w.fires /\ w.water[truck_agent] > 0
        THEN [w EXCEPT
                !.fires = @ \ {p},
                !.water[truck_agent] = Max(0, @ - ExtinguishWater),
                !.fires_extinguished = @ + 1]
        ELSE w

\* a cell whose content is iterated in the order of the hashes of the ids,
\* which changes from one process to another
SurvivorsHereByHash(w, medic_agent) ==
    LET listed == SelectSeq(w.cell_order,
                            LAMBDA s : /\ w.pos[s] = w.pos[medic_agent]
                                       /\ ~w.survivors[s].picked)
    IN  IF w.process = 1 THEN listed
        ELSE [i \in 1 .. Len(listed) |-> listed[Len(listed) + 1 - i]]

\* world.py:221-222: the survivors in the medic's cell that are not picked,
\* in the order the cell lists them
SurvivorsHere(w, medic_agent) ==
    SelectSeq(w.cell_order,
              LAMBDA s : w.pos[s] = w.pos[medic_agent] /\ ~w.survivors[s].picked)

\* a pick-up that sets the carrying flag and keeps no reference
PickupSurvivorUnreferenced(w, medic_agent) ==
    IF w.carrying[medic_agent] THEN w
    ELSE LET survivors_here == SurvivorsHere(w, medic_agent)
         IN  IF survivors_here # <<>>
             THEN LET survivor == survivors_here[1]
                  IN  [w EXCEPT
                         !.survivors[survivor].picked = TRUE,
                         !.survivors[survivor].picked_time = w.time,
                         !.carrying[medic_agent] = TRUE]
             ELSE w

\* a pick-up that does not look at the carrying flag
PickupSurvivorWhileCarrying(w, medic_agent) ==
    LET survivors_here == SurvivorsHere(w, medic_agent)
    IN  IF survivors_here # <<>>
        THEN LET survivor == survivors_here[1]
             IN  [w EXCEPT
                    !.survivors[survivor].picked = TRUE,
                    !.survivors[survivor].picked_time = w.time,
                    !.carrying[medic_agent] = TRUE,
                    !.carrying_survivor[medic_agent] = survivor]
        ELSE w

\* CrisisModel._pickup_survivor
PickupSurvivor(w, medic_agent) ==
    IF w.carrying[medic_agent] THEN w
    ELSE LET survivors_here == SurvivorsHere(w, medic_agent)
         IN  IF survivors_here # <<>>
             THEN LET survivor == survivors_here[1]
                  IN  [w EXCEPT
                         !.survivors[survivor].picked = TRUE,
                         !.survivors[survivor].picked_time = w.time,
                         !.carrying[medic_agent] = TRUE,
                         !.carrying_survivor[medic_agent] = survivor]
             ELSE w

\* a drop that leaves the survivor in the medic's hands as well
DropAtHospitalKeeping(w, medic_agent) ==
    IF ~w.carrying[medic_agent] THEN w
    ELSE LET p == w.pos[medic_agent]
             survivor == w.carrying_survivor[medic_agent]
         IN  IF p \in HospitalCells
             THEN LET queue == Append(w.hospital_queues[p], survivor)
                  IN  [w EXCEPT
                         !.hospital_queues[p] = queue,
                         !.hospital_overflow_events =
                             IF Len(queue) > HospitalCapacity THEN @ + 1 ELSE @,
                         !.drop_time[survivor] = w.time,
                         !.drop_len[survivor] = Len(queue)]
             ELSE w

\* a drop that a hospital whose queue is full turns away
DropAtHospitalHardCap(w, medic_agent) ==
    IF ~w.carrying[medic_agent] THEN w
    ELSE LET p == w.pos[medic_agent]
             survivor == w.carrying_survivor[medic_agent]
         IN  IF p \in HospitalCells /\ Len(w.hospital_queues[p]) < HospitalCapacity
             THEN [w EXCEPT
                     !.hospital_queues[p] = Append(@, survivor),
                     !.drop_time[survivor] = w.time,
                     !.drop_len[survivor] = Len(w.hospital_queues[p]) + 1,
                     !.carrying[medic_agent] = FALSE,
                     !.carrying_survivor[medic_agent] = None]
             ELSE w

\* a drop that clears the medic's carrying state wherever the medic stands
DropAtHospitalAnyCell(w, medic_agent) ==
    IF ~w.carrying[medic_agent] THEN w
    ELSE LET p == w.pos[medic_agent]
             survivor == w.carrying_survivor[medic_agent]
         IN  IF p \in HospitalCells
             THEN LET queue == Append(w.hospital_queues[p], survivor)
                  IN  [w EXCEPT
                         !.hospital_queues[p] = queue,
                         !.hospital_overflow_events =
                             IF Len(queue) > HospitalCapacity THEN @ + 1 ELSE @,
                         !.drop_time[survivor] = w.time,
                         !.drop_len[survivor] = Len(queue),
                         !.carrying[medic_agent] = FALSE,
                         !.carrying_survivor[medic_agent] = None]
             ELSE [w EXCEPT
                     !.carrying[medic_agent] = FALSE,
                     !.carrying_survivor[medic_agent] = None]

\* CrisisModel._drop_at_hospital
DropAtHospital(w, medic_agent) ==
    IF ~w.carrying[medic_agent] THEN w
    ELSE LET p == w.pos[medic_agent]
             survivor == w.carrying_survivor[medic_agent]
         IN  IF p \in HospitalCells
             THEN LET queue == IF survivor # None
                               THEN Append(w.hospital_queues[p], survivor)
                               ELSE w.hospital_queues[p]
                  IN  [w EXCEPT
                         !.hospital_queues[p] = queue,
                         !.hospital_overflow_events =
                             IF survivor # None /\ Len(queue) > HospitalCapacity
                             THEN @ + 1 ELSE @,
                         !.drop_time = IF survivor # None
                                       THEN [@ EXCEPT ![survivor] = w.time] ELSE @,
                         !.drop_len = IF survivor # None
                                      THEN [@ EXCEPT ![survivor] = Len(queue)] ELSE @,
                         !.carrying[medic_agent] = FALSE,
                         !.carrying_survivor[medic_agent] = None]
             ELSE w

\* hospital.admit_patient(model, hospital_pos, patient): the model after the
\* call
AdmitPatient(w, hospital_pos, patient) ==
    IF hospital_pos \in DOMAIN w.hospital_queues
    THEN LET queue == Append(w.hospital_queues[hospital_pos], patient)
         IN  [w EXCEPT
                !.hospital_queues[hospital_pos] = queue,
                !.hospital_overflow_events =
                    IF Len(queue) > HospitalCapacity THEN @ + 1 ELSE @]
    ELSE w

\* a dispatcher whose extinguish does not look at the kind of the agent: any
\* agent on a burning cell puts the fire out
ExecuteSingleCommandAnyKind(w, cmd) ==
    LET agent == cmd.agent_id
    IN  IF agent \notin DOMAIN w.pos THEN w
        ELSE IF cmd.type = "move"
             THEN IF cmd.to # <<>> /\ Len(cmd.to) = 2
                  THEN MoveAgent(w, agent, cmd.to)
                  ELSE w
        ELSE IF cmd.type = "act"
             THEN IF cmd.action_name = "extinguish"
                  THEN IF agent \in Trucks THEN ExtinguishFire(w, agent)
                       ELSE IF w.pos[agent] \in w.fires
                       THEN [w EXCEPT !.fires = @ \ {w.pos[agent]},
                                      !.fires_extinguished = @ + 1]
                       ELSE w
                  ELSE IF cmd.action_name = "pickup_survivor" /\ agent \in Medics
                  THEN PickupSurvivor(w, agent)
                  ELSE IF cmd.action_name = "drop_at_hospital" /\ agent \in Medics
                  THEN DropAtHospital(w, agent)
                  ELSE w
        ELSE w

\* a dispatcher that takes the first two coordinates of a longer "to"
ExecuteSingleCommandFirstTwo(w, cmd) ==
    LET agent == cmd.agent_id
    IN  IF agent \notin DOMAIN w.pos THEN w
        ELSE IF cmd.type = "move"
             THEN IF cmd.to # <<>> /\ Len(cmd.to) >= 2
                  THEN MoveAgent(w, agent, <<cmd.to[1], cmd.to[2]>>)
                  ELSE w
        ELSE IF cmd.type = "act"
             THEN IF cmd.action_name = "extinguish" /\ agent \in Trucks
                  THEN ExtinguishFire(w, agent)
                  ELSE IF cmd.action_name = "pickup_survivor" /\ agent \in Medics
                  THEN PickupSurvivor(w, agent)
                  ELSE IF cmd.action_name = "drop_at_hospital" /\ agent \in Medics
                  THEN DropAtHospital(w, agent)
                  ELSE w
        ELSE w

\* CrisisModel._execute_single_command, for a command that is a dict
ExecuteSingleCommand(w, cmd) ==
    LET agent == cmd.agent_id
    IN  IF agent \notin DOMAIN w.pos THEN w
        ELSE IF cmd.type = "move"
             THEN IF cmd.to # <<>> /\ Len(cmd.to) = 2
                  THEN MoveAgent(w, agent, cmd.to)
                  ELSE w
        ELSE IF cmd.type = "act"
             THEN IF cmd.action_name = "extinguish" /\ agent \in Trucks
                  THEN ExtinguishFire(w, agent)
                  ELSE IF cmd.action_name = "pickup_survivor" /\ agent \in Medics
                  THEN PickupSurvivor(w, agent)
                  ELSE IF cmd.action_name = "drop_at_hospital" /\ agent \in Medics
                  THEN DropAtHospital(w, agent)
                  ELSE w
        ELSE w

\* whether _execute_single_command raises on the command
Raises(cmd) == cmd.type = "non_dict"

\* a loop body that swallows the exception without counting it
TryExecuteUncounted(w, cmd) ==
    IF Raises(cmd) THEN w ELSE ExecuteSingleCommand(w, cmd)

\* the body of the loop of CrisisModel._execute_commands
TryExecute(w, cmd) ==
    IF Raises(cmd)
    THEN [w EXCEPT !.invalid_json = @ + 1]
    ELSE ExecuteSingleCommand(w, cmd)

(***************************************************************************)
(* The passive part of a tick.                                             *)
(***************************************************************************)
\* a survivor whose health goes down while it is carried or queued too
SurvivorStepWhilePicked(sv) ==
    IF ~sv.rescued /\ ~sv.dead
    THEN LET h == sv.health - HealthDecay
         IN  [sv EXCEPT !.health = h, !.dead = (h <= 0)]
    ELSE sv

\* a survivor that dies only when its health is below 0
SurvivorStepLate(sv) ==
    IF ~sv.picked /\ ~sv.rescued /\ ~sv.dead
    THEN LET h == sv.health - HealthDecay
         IN  [sv EXCEPT !.health = h, !.dead = (h < 0)]
    ELSE sv

\* Survivor.step
SurvivorStep(sv) ==
    IF ~sv.picked /\ ~sv.rescued /\ ~sv.dead
    THEN LET h == sv.health - HealthDecay
         IN  [sv EXCEPT !.health = h, !.dead = (h <= 0)]
    ELSE sv

\* DroneAgent.step
DroneStep(b) == IF b > 0 THEN Max(0, b - IdleBattery) ELSE b

\* a schedule whose death count takes every survivor that is dead after the
\* steps, those counted in an earlier tick included
ScheduleStepCountingDead(w) ==
    LET stepped == [s \in DOMAIN w.survivors |-> SurvivorStep(w.survivors[s])]
    IN  [w EXCEPT
           !.survivors = stepped,
           !.deaths = @ + Cardinality({s \in DOMAIN stepped : stepped[s].dead}),
           !.battery = [d \in Drones |-> DroneStep(@[d])]]

\* schedule.step(): every agent's step(); the steps do not read each other's
\* fields, so the random activation order does not show
ScheduleStep(w) ==
    LET stepped == [s \in DOMAIN w.survivors |-> SurvivorStep(w.survivors[s])]
        died == {s \in DOMAIN stepped : stepped[s].dead /\ ~w.survivors[s].dead}
    IN  [w EXCEPT
           !.survivors = stepped,
           !.deaths = @ + Cardinality(died),
           !.battery = [d \in Drones |-> DroneStep(@[d])]]

Neighbours(c) ==
    {<<c[1] + dx, c[2] + dy>> : dx \in {-1, 0, 1}, dy \in {-1, 0, 1}} \ {c}

\* a spread pass that does not test the neighbour against the sides of the
\* grid
SpreadTargetsUnbounded(w) ==
    {n \in UNION {Neighbours(f) : f \in w.fires} :
        /\ n \notin w.fires
        /\ n \notin Rubble}

\* a spread pass in which a cell that may catch fire sets its neighbours
\* alight in the same pass
SpreadTargetsCascading(w) ==
    LET first == {n \in UNION {Neighbours(f) : f \in w.fires} :
                     /\ InBounds(n[1], n[2])
                     /\ n \notin w.fires
                     /\ n \notin Rubble}
    IN  {n \in UNION {Neighbours(f) : f \in w.fires \cup first} :
            /\ InBounds(n[1], n[2])
            /\ n \notin w.fires
            /\ n \notin Rubble}

\* dynamics.py:19-21: the cells a burning cell may set alight in
\* apply_fire_dynamics
FireDynamicsTargets(w) ==
    {n \in UNION {Neighbours(f) : f \in w.fires} :
        /\ InBounds(n[1], n[2])
        /\ n \notin w.fires
        /\ n \notin Rubble
        /\ n \notin HospitalCells}

\* world.py:266-267: the cells a burning cell may set alight
SpreadTargets(w) ==
    {n \in UNION {Neighbours(f) : f \in w.fires} :
        /\ InBounds(n[1], n[2])
        /\ n \notin w.fires
        /\ n \notin Rubble}

\* the outcomes random.random() < percent / 100 can have
Bernoulli(percent) ==
    {b \in BOOLEAN : IF b THEN percent > 0 ELSE percent < 100}

\* the sets new_fires can be after the loop of _apply_dynamics
NewFires(w) ==
    {nf \in SUBSET SpreadTargets(w) :
        /\ (nf # {}) => TRUE \in Bernoulli(FireSpreadPercent)
        /\ (nf # SpreadTargets(w)) => FALSE \in Bernoulli(FireSpreadPercent)}

\* CrisisModel._apply_dynamics, new_fires being what the draws gave
ApplyDynamics(w, new_fires) == [w EXCEPT !.fires = @ \cup new_fires]

\* a hospital pass that leaves the survivors dropped in the current tick
AdmitFromEarlierTicks(w, hospital_pos) ==
    LET queue == w.hospital_queues[hospital_pos]
        survivor == Head(queue)
    IN  IF w.drop_time[survivor] = w.time THEN w
        ELSE [w EXCEPT
                !.hospital_queues[hospital_pos] = Tail(queue),
                !.survivors[survivor].rescued = TRUE,
                !.rescued = @ + 1,
                !.rescue_times =
                    Append(@, w.time - w.survivors[survivor].picked_time)]

\* a hospital pass that measures the latency from the drop
AdmitLatencyFromDrop(w, hospital_pos) ==
    LET queue == w.hospital_queues[hospital_pos]
        survivor == Head(queue)
    IN  [w EXCEPT
           !.hospital_queues[hospital_pos] = Tail(queue),
           !.survivors[survivor].rescued = TRUE,
           !.rescued = @ + 1,
           !.rescue_times = Append(@, w.time - w.drop_time[survivor])]

\* a hospital pass that admits the whole queue at once
AdmitWholeQueue(w, hospital_pos) ==
    LET queue == w.hospital_queues[hospital_pos]
    IN  [w EXCEPT
           !.hospital_queues[hospital_pos] = <<>>,
           !.survivors = [s \in DOMAIN w.survivors |->
                            IF \E i \in 1 .. Len(queue) : queue[i] = s
                            THEN [@[s] EXCEPT !.rescued = TRUE] ELSE @[s]],
           !.rescued = @ + Len(queue),
           !.rescue_times =
               @ \o [i \in 1 .. Len(queue) |->
                        w.time - w.survivors[queue[i]].picked_time]]

\* a hospital pass that admits the survivor dropped last
AdmitLast(w, hospital_pos) ==
    LET queue == w.hospital_queues[hospital_pos]
        survivor == queue[Len(queue)]
    IN  [w EXCEPT
           !.hospital_queues[hospital_pos] = SubSeq(queue, 1, Len(queue) - 1),
           !.survivors[survivor].rescued = TRUE,
           !.rescued = @ + 1,
           !.rescue_times = Append(@, w.time - w.survivors[survivor].picked_time)]

\* a hospital pass that takes the admitted survivor off the grid and out of
\* the schedule
AdmitAndRemove(w, hospital_pos) ==
    LET queue == w.hospital_queues[hospital_pos]
        survivor == Head(queue)
    IN  [w EXCEPT
           !.hospital_queues[hospital_pos] = Tail(queue),
           !.survivors[survivor].rescued = TRUE,
           !.rescued = @ + 1,
           !.rescue_times = Append(@, w.time - w.survivors[survivor].picked_time),
           !.pos = [a \in DOMAIN @ \ {survivor} |-> @[a]],
           !.cell_order = SelectSeq(@, LAMBDA s : s # survivor)]

\* a hospital pass that records no rescue time
AdmitUnrecorded(w, hospital_pos) ==
    LET queue == w.hospital_queues[hospital_pos]
        survivor == Head(queue)
    IN  [w EXCEPT
           !.hospital_queues[hospital_pos] = Tail(queue),
           !.survivors[survivor].rescued = TRUE,
           !.rescued = @ + 1]

\* an admission that leaves a dead patient at the head of the queue
AdmitTheLiving(w, hospital_pos) ==
    LET queue == w.hospital_queues[hospital_pos]
        survivor == Head(queue)
    IN  IF w.survivors[survivor].dead THEN w
        ELSE [w EXCEPT
                !.hospital_queues[hospital_pos] = Tail(queue),
                !.survivors[survivor].rescued = TRUE,
                !.rescued = @ + 1,
                !.rescue_times = Append(@, w.time - w.survivors[survivor].picked_time)]

\* one iteration of the loop of _process_hospitals on a non-empty queue whose
\* draw succeeded
Admit(w, hospital_pos) ==
    LET queue == w.hospital_queues[hospital_pos]
        survivor == Head(queue)
    IN  [w EXCEPT
           !.hospital_queues[hospital_pos] = Tail(queue),
           !.survivors[survivor].rescued = TRUE,
           !.rescued = @ + 1,
           !.rescue_times = Append(@, w.time - w.survivors[survivor].picked_time)]

\* dynamics.consume_resources(agent, action_type); agent is the record of the
\* attributes it has
ConsumeResources(agent, action_type) ==
    LET drained ==
            IF "battery" \in DOMAIN agent
            THEN IF action_type = "move"
                 THEN [agent EXCEPT !.battery = Max(0, @ - MoveBattery)]
                 ELSE IF action_type = "scout"
                 THEN [agent EXCEPT !.battery = Max(0, @ - ScoutBattery)]
                 ELSE agent
            ELSE agent
    IN  IF "water" \in DOMAIN drained /\ action_type = "extinguish"
        THEN [drained EXCEPT !.water = Max(0, @ - ExtinguishWater)]
        ELSE drained

\* the hospitals whose draw may be taken and the sets of them it can succeed for
Admitting(w) ==
    LET busy == {h \in HospitalCells : w.hospital_queues[h] # <<>>}
    IN  {ad \in SUBSET busy :
            /\ (ad # {}) => TRUE \in Bernoulli(w.hospital_service_rate)
            /\ (ad # busy) => FALSE \in Bernoulli(w.hospital_service_rate)}

RECURSIVE ProcessFrom(_, _, _)
ProcessFrom(w, i, admitted) ==
    IF i > Len(Hospitals) THEN w
    ELSE ProcessFrom(IF Hospitals[i] \in admitted THEN Admit(w, Hospitals[i]) ELSE w,
                     i + 1, admitted)

\* CrisisModel._process_hospitals, admitted being the hospitals whose draw
\* succeeded; hospital_queues.items() runs in the order of the hospital list
ProcessHospitals(w, admitted) == ProcessFrom(w, 1, admitted)

(***************************************************************************)
(* The state after CrisisModel(width, height, config=...): survivor_list   *)
(* is the survivors in the order they are created, place the cells the     *)
(* draws of the placement loop gave them, truck_water the water the truck  *)
(* is created with.                                                        *)
(***************************************************************************)
BuiltWith(initial_fires, survivor_list, place, truck_water) ==
    /\ phase = "idle"
    /\ planned = 0
    /\ plan = <<>>
    /\ time = 0
    /\ fires = initial_fires
    /\ hospital_queues = [h \in HospitalCells |-> <<>>]
    /\ hospital_service_rate \in ServiceRates
    /\ rescued = 0
    /\ deaths = 0
    /\ fires_extinguished = 0
    /\ energy_used = 0
    /\ tool_calls = 0
    /\ invalid_json = 0
    /\ hospital_overflow_events = 0
    /\ rescue_times = <<>>
    /\ pos = [a \in Units \cup Range(survivor_list) |->
                 IF a \in Units THEN Depot ELSE place[a]]
    /\ cell_order = survivor_list
    /\ battery = [d \in Drones |-> InitBattery]
    /\ water = [t \in Trucks |-> truck_water]
    /\ carrying = [m \in Medics |-> FALSE]
    /\ carrying_survivor = [m \in Medics |-> None]
    /\ survivors = [s \in Range(survivor_list) |->
                      [health |-> InitHealth, picked |-> FALSE, rescued |-> FALSE,
                       dead |-> FALSE, picked_time |-> NoTime]]
    /\ drop_time = [s \in Range(survivor_list) |-> NoTime]
    /\ drop_len = [s \in Range(survivor_list) |-> 0]
    /\ routing = NoCall
    /\ twin = [self EXCEPT !.process = 2]

\* the construction with the scaled water tank
Built(initial_fires, survivor_list, place) ==
    BuiltWith(initial_fires, survivor_list, place, InitWater)

\* the configuration with the survivors of SurvivorList, placed on any cells
\* the placement loop can draw
Constructed(initial_fires) ==
    \E place \in [Survivors -> SpawnCells(initial_fires)] :
        Built(initial_fires, SurvivorList, place)

(***************************************************************************)
(* The operations.                                                         *)
(***************************************************************************)
\* a set_plan that counts one tool call for the list, whatever its length
SetPlanCountingCalls(commands) ==
    /\ phase = "idle"
    /\ time < MaxTime
    /\ phase' = "planned"
    /\ planned' = Len(commands)
    /\ plan' = commands
    /\ Becomes([self EXCEPT !.tool_calls = @ + 1])
    /\ twin' = [twin EXCEPT !.tool_calls = @ + 1]

\* CrisisModel.set_plan(commands); main.py calls it once before each step()
SetPlan(commands) ==
    /\ phase = "idle"
    /\ time < MaxTime
    /\ phase' = "planned"
    /\ planned' = Len(commands)
    /\ plan' = commands
    /\ Becomes([self EXCEPT !.tool_calls = @ + Len(commands)])
    /\ twin' = [twin EXCEPT !.tool_calls = @ + Len(commands)]

\* a step() that runs the agents' steps before the commands
StepBeginWithDecay ==
    /\ phase \in {"idle", "planned"}
    /\ time < MaxTime
    /\ phase' = "exec"
    /\ planned' = planned
    /\ plan' = plan
    /\ Becomes(ScheduleStep([self EXCEPT !.time = @ + 1]))
    /\ twin' = ScheduleStep([twin EXCEPT !.time = @ + 1])

\* CrisisModel.step: world.py:129
StepBegin ==
    /\ phase \in {"idle", "planned"}
    /\ time < MaxTime
    /\ phase' = "exec"
    /\ planned' = planned
    /\ plan' = plan
    /\ Becomes([self EXCEPT !.time = @ + 1])
    /\ twin' = [twin EXCEPT !.time = @ + 1]

\* a loop that takes the commands from the end of the list
LastCommand(commands) == commands[Len(commands)]

\* world.py:148: the command the loop takes next, and the ones left after it
NextCommand(commands) == Head(commands)
Rest(commands) == Tail(commands)

\* CrisisModel.step: one turn of the loop of _execute_commands; cmd is the
\* command the loop takes, drawn now when the list left it open
ExecuteCommand(cmd) ==
    /\ phase = "exec"
    /\ planned > 0
    /\ NextCommand(plan) \in {Unfixed, cmd}
    /\ phase' = "exec"
    /\ planned' = planned - 1
    /\ plan' = Rest(plan)
    /\ Becomes(TryExecute(self, cmd))
    /\ twin' = TryExecute(twin, cmd)

\* CrisisModel.step: world.py:135-141, after the command loop
StepEnd(new_fires, admitted) ==
    /\ phase = "exec"
    /\ planned = 0
    /\ phase' = "idle"
    /\ planned' = 0
    /\ plan' = <<>>
    /\ Becomes(ProcessHospitals(ApplyDynamics(ScheduleStep(self), new_fires),
                                admitted))
    /\ twin' = ProcessHospitals(ApplyDynamics(ScheduleStep(twin), new_fires),
                                admitted)

StepEndAny ==
    LET w == ScheduleStep(self)
    IN  \E new_fires \in NewFires(w) :
          \E admitted \in Admitting(w) : StepEnd(new_fires, admitted)

\* set_plan with a list of which only the length is fixed
SetPlanAny(lengths) == \E n \in lengths : SetPlan([i \in 1 .. n |-> Unfixed])

ExecuteAny(commands) == \E cmd \in commands : ExecuteCommand(cmd)

Init == Constructed(InitialFires)

Next ==
    \/ SetPlanAny(PlanLengths)
    \/ StepBegin
    \/ ExecuteAny(Commands)
    \/ StepEndAny

Spec == Init /\ [][Next]_vars

\* a world built from a configuration without initial_fires, driven by the
\* commands of a rescue run
InitRescue == Constructed({})

NextRescue ==
    \/ SetPlanAny(RescuePlanLengths)
    \/ StepBegin
    \/ ExecuteAny(RescueCommands)
    \/ StepEndAny

SpecRescue == InitRescue /\ [][NextRescue]_vars


\* a world driven by command lists that are fixed when set_plan() is called
InitPlan == Constructed({}) /\ hospital_service_rate = 30

SetPlanFixed == \E commands \in Plans : SetPlan(commands)

ExecuteNext == planned > 0 /\ ExecuteCommand(NextCommand(plan))

NextPlan ==
    \/ SetPlanFixed
    \/ StepBegin
    \/ ExecuteNext
    \/ StepEndAny

SpecPlan == InitPlan /\ [][NextPlan]_vars

\* a world without survivors in which every cell but the rubble burns and
\* the truck has its full tank; the truck goes round the burning cells,
\* leaving the first and the last two of the round alight in a short tick
FireRound ==
    << Move("truck_0", <<0, 1>>), Act("truck_0", "extinguish"),
       Move("truck_0", <<1, 0>>), Act("truck_0", "extinguish"),
       Move("truck_0", <<2, 1>>), Act("truck_0", "extinguish"),
       Move("truck_0", <<2, 0>>), Act("truck_0", "extinguish"),
       Move("truck_0", <<0, 0>>), Act("truck_0", "extinguish") >>

FirePlans == {SubSeq(FireRound, 1, n) : n \in 0 .. Len(FireRound)}

InitFire == BuiltWith(Cells \ Rubble, <<>>, <<>>, TruckWater)

SetPlanFire == \E commands \in FirePlans : SetPlan(commands)

NextFire ==
    \/ SetPlanFire
    \/ StepBegin
    \/ ExecuteNext
    \/ StepEndAny

SpecFire == InitFire /\ [][NextFire]_vars

\* a world built with TriageSurvivors survivors, all placed on the free cell
\* next to a hospital, driven by the commands of a triage run
InitTriage ==
    Built({}, TriageSurvivorList, [s \in Range(TriageSurvivorList) |-> <<1, 0>>])

SetPlanTriage == \E commands \in TriagePlans : SetPlan(commands)

NextTriage ==
    \/ SetPlanTriage
    \/ StepBegin
    \/ ExecuteNext
    \/ StepEndAny

SpecTriage == InitTriage /\ [][NextTriage]_vars

\* step() called after tick MaxTime, with no command list pending: the clock
\* is followed up to MaxTime only, the rest of the tick is as ever
StepBeginLate ==
    /\ phase = "idle"
    /\ time = MaxTime
    /\ phase' = "exec"
    /\ planned' = 0
    /\ plan' = <<>>
    /\ Becomes(self)
    /\ twin' = twin

\* the hospitals whose draw is taken at the end of this tick
Busy == {h \in HospitalCells : hospital_queues[h] # <<>>}

\* the end of a tick in which the draws succeed for the hospitals of admitted
\* and for no other
StepEndDrawing(admitted) ==
    /\ phase = "exec"
    /\ planned = 0
    /\ \E new_fires \in NewFires(ScheduleStep(self)) :
          /\ StepEnd(new_fires, admitted)
          /\ admitted \in Admitting(ScheduleStep(self))

TickEnd == \E admitted \in SUBSET Busy : StepEndDrawing(admitted)

\* the end of a tick in which the draw of hospital_pos succeeds
AdmitAt(hospital_pos) ==
    \E admitted \in SUBSET Busy :
       hospital_pos \in admitted /\ StepEndDrawing(admitted)

\* a world whose survivors all lie on the free cell next to the hospitals,
\* with a medic that carries them to one hospital or to both and a driver
\* that never stops calling step(): a tick that can begin begins, a step()
\* that was entered runs to its end, and no hospital with patients fails its
\* draw for ever
LiveRound ==
    ShuttleRound \o
    <<Move("medic_0", <<1, 0>>), Act("medic_0", "pickup_survivor"),
      Move("medic_0", <<2, 1>>), Act("medic_0", "drop_at_hospital")>>

LivePlans ==
    {Shuttle(rounds) : rounds \in 0 .. Len(SurvivorList)}
        \cup {SubSeq(LiveRound, 1, n) : n \in {Len(ShuttleRound), Len(LiveRound)}}

InitLive == Built({}, SurvivorList, [s \in Survivors |-> <<1, 0>>])

SetPlanLive == \E commands \in LivePlans : SetPlan(commands)

NextLive ==
    \/ SetPlanLive
    \/ StepBegin
    \/ StepBeginLate
    \/ ExecuteNext
    \/ TickEnd

SpecLive ==
    /\ InitLive
    /\ [][NextLive]_vars
    /\ WF_vars(StepBegin)
    /\ WF_vars(StepBeginLate)
    /\ WF_vars(ExecuteNext)
    /\ WF_vars(TickEnd)
    /\ \A h \in HospitalCells : SF_vars(AdmitAt(h))

(***************************************************************************)
(* Survivor lifecycle.                                                     *)
(***************************************************************************)
InQueue(s) == \E h \in HospitalCells : s \in Range(hospital_queues[h])

\* the lifecycle state a survivor is observed in
Stage(s) ==
    IF survivors[s].rescued THEN "Rescued"
    ELSE IF InQueue(s) THEN "Queued"
    ELSE IF survivors[s].picked THEN "Picked"
    ELSE IF survivors[s].dead THEN "Dead"
    ELSE "Alive"

LifecycleSteps ==
    {<<"Alive", "Picked">>, <<"Picked", "Queued">>, <<"Queued", "Rescued">>,
     <<"Alive", "Dead">>}

\* C1: every survivor only ever moves along Alive -> Picked -> Queued ->
\* Rescued or Alive -> Dead, one stage at a time; in particular a dead
\* survivor is never picked, queued or rescued afterwards.
C1_SurvivorMonotonicity ==
    [][\A s \in Survivors :
          \/ Stage(s)' = Stage(s)
          \/ <<Stage(s), Stage(s)'>> \in LifecycleSteps]_vars

\* server.py:105-119, the counts of the statistics panel
OnMap == Cardinality({s \in Survivors : ~survivors[s].picked /\ ~survivors[s].dead})
CarryingNow == Cardinality({m \in Medics : carrying[m]})
Queued == Cardinality({s \in Survivors : InQueue(s)})
TotalSurvivors == Cardinality(Survivors)

\* C2: after every tick the survivors on the map, carried, queued, rescued
\* and dead add up to total_survivors, and rescued + deaths <= total_survivors.
C2_Conservation ==
    phase = "idle" =>
        /\ OnMap + CarryingNow + Queued + rescued + deaths = TotalSurvivors
        /\ rescued + deaths <= TotalSurvivors

(***************************************************************************)
(* Fire and resources.                                                     *)
(***************************************************************************)
\* C3: no burning cell is a hospital cell, the depot cell or a rubble cell.
C3_FireContainment ==
    fires \cap (HospitalCells \cup {Depot} \cup Rubble) = {}

\* the part of C3 the engine keeps: fire never enters a rubble cell
FireOffRubble == fires \cap Rubble = {}

ResourceActions == {"move", "scout", "extinguish", "wait"}

\* C8: the drone's battery and the truck's water are never negative, in the
\* world and after any consume_resources on the levels the world reaches.
C8_ResourceFloors ==
    /\ \A d \in Drones : battery[d] >= 0
    /\ \A t \in Trucks : water[t] >= 0
    /\ \A a \in ResourceActions :
          /\ \A d \in Drones :
                ConsumeResources([battery |-> battery[d]], a).battery >= 0
          /\ \A t \in Trucks :
                ConsumeResources([water |-> water[t]], a).water >= 0

\* a drone ran its battery down to the floor and a truck its water, by its
\* second extinguish
C8_Witness ==
    /\ \E d \in Drones : battery[d] = 0 /\ pos[d] # Depot
    /\ \E t \in Trucks : water[t] = 0 /\ fires_extinguished = 2

(***************************************************************************)
(* Movement.                                                               *)
(***************************************************************************)
\* C4: whatever move command is executed in a reachable world, the addressed
\* entity ends on a cell of the grid that is not rubble, and when the target
\* is out of bounds or rubble its position, the batteries and energy_used are
\* what they were.
C4_MovementBounds ==
    \A cmd \in MoveCommands :
        cmd.agent_id \in Agents =>
            LET w == TryExecute(self, cmd)
            IN  /\ w.pos[cmd.agent_id] \in Cells \ Rubble
                /\ (Len(cmd.to) = 2 /\ cmd.to \notin Cells \ Rubble) =>
                      /\ w.pos = pos
                      /\ w.battery = battery
                      /\ w.energy_used = energy_used

\* inside a tick, after moves that were carried out: the drone stands on
\* another cell than the depot with its battery used, next to the rubble cell
C4_Witness ==
    /\ phase = "exec"
    /\ energy_used >= 2
    /\ pos["drone_0"] = <<1, 0>>
    /\ battery["drone_0"] < InitBattery
    /\ pos["truck_0"] # Depot

(***************************************************************************)
(* Rejected commands.                                                      *)
(***************************************************************************)
\* act commands whose action is not one of the addressed unit's kind
WrongKindCommands ==
    {Act(a, "extinguish") : a \in Medics \cup Drones}
    \cup {Act(a, n) : a \in Trucks \cup Drones,
                      n \in {"pickup_survivor", "drop_at_hospital"}}

\* C12: in every reachable world, executing an act command whose action does
\* not match the actor's kind leaves every field of the world as it was,
\* the invalid-command tally aside.
C12_RejectionByKind ==
    \A cmd \in WrongKindCommands :
        [TryExecute(self, cmd) EXCEPT !.invalid_json = invalid_json] = self

\* inside the command loop with commands still to run, the drone stands on a
\* burning cell away from the depot: an extinguish by it would matter if it
\* were carried out
C12_Witness ==
    /\ phase = "exec"
    /\ planned > 0
    /\ pos["drone_0"] \in fires
    /\ pos["drone_0"] # Depot
    /\ water["truck_0"] > 0

\* the structurally invalid commands: an agent id that no entity has, move
\* coordinates that are missing or not a pair, an action that is not one of
\* the addressed unit's kind, and a command that is not a dict
StructurallyInvalid ==
    {cmd \in MoveCommands \cup ActCommands : cmd.agent_id \notin Agents}
    \cup {cmd \in MoveCommands : Len(cmd.to) # 2}
    \cup WrongKindCommands
    \cup {NonDict}

\* C14: every structurally invalid command is tallied: executing one in any
\* reachable world adds one to the invalid-command counter.
C14_InvalidTally ==
    \A cmd \in StructurallyInvalid :
        TryExecute(self, cmd).invalid_json = invalid_json + 1

\* what the engine counts: the commands whose execution raises, and no other
OnlyRaisingCounted ==
    \A cmd \in AllCommands :
        TryExecute(self, cmd).invalid_json =
            invalid_json + (IF Raises(cmd) THEN 1 ELSE 0)

\* C15: no command moves a survivor: in no turn of the command loop does the
\* position of a survivor change.
C15_SurvivorsNotActors ==
    [][(phase = "exec" /\ phase' = "exec") =>
          \A s \in Survivors : pos'[s] = pos[s]]_vars

(***************************************************************************)
(* The command loop.                                                       *)
(***************************************************************************)
\* C13: step() goes through the whole tick whatever the commands are: a
\* command whose execution raises is counted once in invalid_json, the
\* commands after it in the list are still to run, in their order, and the
\* tick ends only after the last command, which it always can.
C13_NeverRaises ==
    [][phase = "exec" =>
          /\ (plan # <<>> /\ Raises(plan[1])) =>
                /\ phase' = "exec"
                /\ invalid_json' = invalid_json + 1
                /\ plan' = SubSeq(plan, 2, Len(plan))
          /\ plan # <<>> => phase' = "exec" /\ Len(plan') = Len(plan) - 1
          /\ plan = <<>> =>
                /\ NewFires(ScheduleStep(self)) # {}
                /\ Admitting(ScheduleStep(self)) # {}
                /\ phase' = "idle"
                /\ invalid_json' = invalid_json]_vars

\* a command of the list has raised and was counted; a move after it in the
\* same list is still to run
C13_Witness ==
    /\ phase = "exec"
    /\ time = 1
    /\ invalid_json = 1
    /\ energy_used = 0
    /\ plan = <<Move("truck_0", <<0, 1>>)>>

RECURSIVE FoldCommands(_, _)
\* the left-to-right fold of the single-command effect over a list
FoldCommands(w, commands) ==
    IF commands = <<>> THEN w
    ELSE FoldCommands(TryExecute(w, commands[1]),
                      SubSeq(commands, 2, Len(commands)))

\* the places of a list that hold a move of an existing entity to a cell of
\* the grid that is not rubble
ValidMoves(commands) ==
    {i \in 1 .. Len(commands) :
        /\ commands[i].type = "move"
        /\ commands[i].agent_id \in Agents
        /\ commands[i].to \in Cells \ Rubble}

\* C16: the commands of a tick are applied in list order, one after the
\* other: every turn of the loop keeps the fold of the commands still to run
\* over the current world, so the world after the loop is the fold of the
\* whole list over the world before it; an entity that valid moves address
\* ends on the target of the last of them, and energy_used grows by one for
\* each valid move.
C16_SequentialOrder ==
    [][phase = "exec" =>
          LET after == FoldCommands(self, plan)
              valid == ValidMoves(plan)
          IN  /\ phase' = "exec" => FoldCommands(self', plan') = after
              /\ \A a \in Agents :
                    LET mine == {i \in valid : plan[i].agent_id = a}
                    IN  mine # {} =>
                          \E i \in mine :
                              /\ \A j \in mine : j <= i
                              /\ after.pos[a] = plan[i].to
              /\ after.energy_used = energy_used + Cardinality(valid)]_vars

\* the first of two moves of the truck has been applied and charged, the
\* second is still to run
C16_Witness ==
    /\ phase = "exec"
    /\ time = 1
    /\ pos["truck_0"] = <<0, 1>>
    /\ energy_used = 1
    /\ plan = <<Move("truck_0", <<1, 0>>)>>

(***************************************************************************)
(* The order of a tick.                                                    *)
(***************************************************************************)
\* C17: commands take effect before the passive decay of the same tick: the
\* health and the dead flag of a survivor change only in the step that ends
\* a tick, after the commands, and only if the survivor is not picked by
\* then; so a survivor picked in tick t loses no health and does not die in
\* tick t.
C17_CommandsBeforeDecay ==
    [][\A s \in Survivors :
          (\/ survivors'[s].health # survivors[s].health
           \/ survivors'[s].dead # survivors[s].dead) =>
              /\ phase = "exec" /\ phase' = "idle"
              /\ ~survivors[s].picked]_vars

\* a survivor whose health was 1 when a tick began was picked in that tick
\* and is alive with health 1 when the tick has ended
C17_Witness ==
    /\ phase = "idle"
    /\ time > 0
    /\ \E s \in Survivors :
          /\ survivors[s].picked
          /\ survivors[s].picked_time = time
          /\ survivors[s].health = 1
          /\ ~survivors[s].dead

\* C18: the tick counter is advanced only at the end of step(), after the
\* commands, the decay, the fire spread and the admissions: entering step()
\* leaves it as it is, the end of the tick adds one, and a pick-up in the
\* first step of a fresh world records tick 0.
C18_TickOrdering ==
    [][/\ (phase # "exec" /\ phase' = "exec") => time' = time
       /\ (phase = "exec" /\ phase' = "idle") => time' = time + 1
       /\ \A s \in Survivors :
             (survivors'[s].picked /\ ~survivors[s].picked /\ time <= 1) =>
                 survivors'[s].picked_time = 0]_vars

\* what the code does: the counter is advanced on entering step(), and
\* everything in the tick reads the advanced value
TickAdvancedFirst ==
    [][/\ (phase # "exec" /\ phase' = "exec") => time' = time + 1
       /\ phase = "exec" => time' = time
       /\ \A s \in Survivors :
             (survivors'[s].picked /\ ~survivors[s].picked) =>
                 survivors'[s].picked_time = time]_vars

\* C20: while a survivor is picked, carried or queued, its health does not
\* go down, it is not marked dead, and deaths grows only by the survivors
\* that die unpicked.
C20_NoDeathInTransit ==
    [][/\ \A s \in Survivors :
             survivors[s].picked =>
                 /\ survivors'[s].health >= survivors[s].health
                 /\ survivors'[s].dead = survivors[s].dead
       /\ deaths' - deaths =
             Cardinality({s \in Survivors :
                             /\ ~survivors[s].picked
                             /\ survivors'[s].dead /\ ~survivors[s].dead})]_vars

\* a survivor picked alive with health 1 has been carried or queued through
\* the end of a later tick and is still alive with health 1
C20_Witness ==
    /\ phase = "idle"
    /\ \E s \in Survivors :
          /\ survivors[s].picked
          /\ ~survivors[s].rescued
          /\ survivors[s].picked_time < time
          /\ survivors[s].health = 1
          /\ ~survivors[s].dead

EndsTick == phase = "exec" /\ phase' = "idle"

\* the survivors dropped in the current tick onto an empty queue
DroppedFirstNow == {s \in Survivors : drop_time[s] = time /\ drop_len[s] = 1}

\* a drop by medic m onto the empty queue of the hospital it stands on
DropsOntoEmpty(m) ==
    /\ carrying[m] /\ ~carrying'[m]
    /\ pos[m] \in HospitalCells
    /\ hospital_queues[pos[m]] = <<>>

QueueAfterDrop ==
    \A m \in Medics :
        DropsOntoEmpty(m) => hospital_queues'[pos[m]] = <<carrying_survivor[m]>>

\* C5 as stated: a drop onto an empty queue in tick t leaves a queue of
\* length 1, the survivor is still queued when tick t ends, and with service
\* probability 1.0 it is admitted in tick t + 1.
C5_Original ==
    [][/\ QueueAfterDrop
       /\ EndsTick =>
            \A s \in DroppedFirstNow : InQueue(s)' /\ ~survivors'[s].rescued
       /\ (EndsTick /\ hospital_service_rate = 100) =>
            \A s \in Survivors :
                (drop_time[s] = time - 1 /\ drop_len[s] = 1) =>
                    ~survivors[s].rescued /\ survivors'[s].rescued]_vars

\* C5, amended: a drop onto an empty queue in tick t leaves a queue of
\* length 1 holding the survivor; the hospital pass of the same tick t runs
\* after it, and with service probability 1.0 it admits the survivor: when
\* tick t ends the survivor is rescued and out of the queue, and the rescued
\* counter has grown (to 1 when nobody was rescued before and no other
\* hospital had a queue).
C5_DropThenAdmit ==
    [][/\ QueueAfterDrop
       /\ (EndsTick /\ hospital_service_rate = 100) =>
            \A s \in DroppedFirstNow :
                /\ survivors'[s].rescued
                /\ ~InQueue(s)'
                /\ rescued' >= rescued + 1
                /\ (rescued = 0 /\ Queued = 1) => rescued' = 1]_vars

\* the tick of the drop has ended with the survivor admitted
C5_Witness ==
    /\ phase = "idle"
    /\ hospital_service_rate = 100
    /\ \E s \in DroppedFirstNow : survivors[s].rescued /\ ~InQueue(s)
    /\ rescued = 1

\* the hospitals that admit in this step, in the order of the hospital list
AdmittingNow ==
    SelectSeq(Hospitals,
              LAMBDA h : Len(hospital_queues'[h]) < Len(hospital_queues[h]))

\* C6: every admission records exactly one latency sample, which is the
\* tick counter at admission minus the tick counter recorded at pick-up.
C6_RescueLatency ==
    [][LET admitting == AdmittingNow
       IN  /\ Len(rescue_times') = Len(rescue_times) + Len(admitting)
           /\ rescued' - rescued = Len(admitting)
           /\ \A i \in 1 .. Len(rescue_times) : rescue_times'[i] = rescue_times[i]
           /\ \A i \in 1 .. Len(admitting) :
                 LET s == Head(hospital_queues[admitting[i]])
                 IN  /\ survivors'[s].rescued /\ ~survivors[s].rescued
                     /\ rescue_times'[Len(rescue_times) + i]
                            = time' - survivors[s].picked_time]_vars

\* a survivor picked in one tick was admitted in a later one
C6_Witness ==
    /\ phase = "idle"
    /\ rescued = 1
    /\ \E s \in Survivors :
          /\ survivors[s].rescued
          /\ survivors[s].picked_time < time
          /\ rescue_times = <<time - survivors[s].picked_time>>

\* C7: in one tick a hospital admits at most one survivor: no queue shrinks
\* by more than one entry in a step, and the rescued counter grows by at
\* most the number of hospitals.
C7_HospitalThroughput ==
    [][/\ \A h \in HospitalCells :
             Len(hospital_queues'[h]) >= Len(hospital_queues[h]) - 1
       /\ rescued' - rescued <= Len(Hospitals)
       /\ rescued' - rescued =
             Cardinality({s \in Survivors :
                             survivors'[s].rescued /\ ~survivors[s].rescued})]_vars

\* a queue of two was served once: the first is rescued, the second waits
C7_Witness ==
    /\ phase = "idle"
    /\ rescued = 1
    /\ \E h \in HospitalCells, s \in Survivors :
          hospital_queues[h] = <<s>> /\ drop_len[s] = 2

(***************************************************************************)
(* Survivor decay.                                                         *)
(***************************************************************************)
\* the survivors a tick's decay applies to
Decaying ==
    {s \in Survivors :
        ~survivors[s].picked /\ ~survivors[s].rescued /\ ~survivors[s].dead}

Dead == {s \in Survivors : survivors[s].dead}

\* C21: the step that ends a tick takes exactly 1 health from every survivor
\* that is alive and not picked and marks it dead exactly when its health
\* is then <= 0; no other survivor's health or dead flag changes, and no
\* other step changes any; a dead survivor stays dead; deaths grows by one
\* for each survivor that dies, so deaths is always the number of survivors
\* flagged dead.
C21_DecayAndDeaths ==
    [][/\ \A s \in Survivors :
             IF EndsTick /\ s \in Decaying
             THEN /\ survivors'[s].health = survivors[s].health - HealthDecay
                  /\ survivors'[s].dead = (survivors'[s].health <= 0)
             ELSE /\ survivors'[s].health = survivors[s].health
                  /\ survivors'[s].dead = survivors[s].dead
       /\ deaths' = deaths + Cardinality(Dead' \ Dead)
       /\ deaths = Cardinality(Dead)
       /\ deaths' = Cardinality(Dead')]_vars

\* one survivor has died of decay and was counted once, at a tick after its
\* death, while the other, picked in time, is alive
C21_Witness ==
    /\ phase = "idle"
    /\ time = MaxTime
    /\ deaths = 1
    /\ \E s \in Survivors :
          /\ survivors[s].dead /\ survivors[s].health = 0 /\ ~survivors[s].picked
    /\ \E s \in Survivors :
          /\ ~survivors[s].dead /\ survivors[s].health > 0 /\ survivors[s].picked


(***************************************************************************)
(* The medic's actions.                                                    *)
(***************************************************************************)
\* the survivors a medic could pick up: on its cell and not picked yet
Candidates(m) == {s \in Survivors : pos[s] = pos[m] /\ ~survivors[s].picked}

\* the survivors that are picked and neither queued nor rescued
InHand ==
    {s \in Survivors :
        survivors[s].picked /\ ~InQueue(s) /\ ~survivors[s].rescued}

\* C22: in every reachable world, pickup_survivor by a medic that is not
\* carrying and shares its cell with a survivor not picked yet marks exactly
\* one of those survivors picked, records the current tick as its pick-up
\* tick and sets the medic's carrying flag and held reference to it, and
\* changes nothing else; by a medic that is carrying, or with no such
\* survivor on the cell, it changes nothing.  A medic holds at most one
\* survivor: the survivors in hand are the held references of the medics.
C22_Pickup ==
    /\ \A m \in Medics :
          LET w == TryExecute(self, Act(m, "pickup_survivor"))
          IN  IF ~carrying[m] /\ Candidates(m) # {}
              THEN \E s \in Candidates(m) :
                     w = [self EXCEPT
                             !.survivors[s].picked = TRUE,
                             !.survivors[s].picked_time = time,
                             !.carrying[m] = TRUE,
                             !.carrying_survivor[m] = s]
              ELSE w = self
    /\ \A m \in Medics : carrying[m] <=> carrying_survivor[m] \in Survivors
    /\ InHand = {carrying_survivor[m] : m \in Medics} \ {None}

\* the medic has picked one of two survivors of its cell in the current
\* tick and holds it; the other is still there, not picked, and commands
\* are still to run
C22_Witness ==
    /\ phase = "exec"
    /\ planned > 0
    /\ \E m \in Medics, s \in Survivors :
          /\ carrying[m] /\ carrying_survivor[m] = s
          /\ survivors[s].picked /\ survivors[s].picked_time = time
          /\ pos[s] = pos[m]
          /\ Candidates(m) # {}

\* C23: in every reachable world, drop_at_hospital by a carrying medic on a
\* hospital cell appends the held survivor at the tail of that hospital's
\* queue, leaves the other queues as they are and clears the medic's carrying
\* flag and held reference; nothing else of the world changes, the overflow
\* counter aside.  By a medic that is not carrying, or that is carrying and
\* not on a hospital cell, it changes nothing, and the medic keeps its
\* survivor.
C23_Drop ==
    \A m \in Medics :
        LET w == TryExecute(self, Act(m, "drop_at_hospital"))
        IN  IF carrying[m] /\ pos[m] \in HospitalCells
            THEN /\ w.hospital_queues =
                        [hospital_queues EXCEPT
                            ![pos[m]] = Append(@, carrying_survivor[m])]
                 /\ ~w.carrying[m]
                 /\ w.carrying_survivor[m] = None
                 /\ [w EXCEPT !.hospital_overflow_events = hospital_overflow_events,
                              !.drop_time = drop_time, !.drop_len = drop_len]
                        = [self EXCEPT
                              !.hospital_queues = w.hospital_queues,
                              !.carrying[m] = FALSE,
                              !.carrying_survivor[m] = None]
            ELSE /\ w = self
                 /\ w.carrying_survivor[m] = carrying_survivor[m]

\* an earlier drop has put a survivor in a hospital's queue; the medic
\* stands on that hospital carrying the other survivor, with commands still
\* to run
C23_Witness ==
    /\ phase = "exec"
    /\ planned > 0
    /\ \E m \in Medics, s \in Survivors :
          /\ carrying[m] /\ carrying_survivor[m] \in Survivors \ {s}
          /\ pos[m] \in HospitalCells
          /\ hospital_queues[pos[m]] = <<s>>
          /\ drop_time[s] < time

\* the hospitals whose queue is longer after the step and then over the
\* soft capacity
OverflowingNow ==
    {h \in HospitalCells :
        /\ Len(hospital_queues'[h]) > Len(hospital_queues[h])
        /\ Len(hospital_queues'[h]) > HospitalCapacity}

\* C24: the capacity of a hospital is soft.  In every reachable world a drop
\* by a carrying medic on a hospital cell is carried out whatever the length
\* of the queue: the queue is one longer and the medic's hands are empty;
\* admit_patient likewise appends whatever the length is.  The overflow
\* counter grows by exactly 1 in a step in which a queue grows to a length
\* above 5 and is unchanged in every other step; in particular the hospital
\* pass, which shortens queues, leaves it as it is.
C24_SoftCapacity ==
    /\ [](\A m \in Medics :
            (carrying[m] /\ pos[m] \in HospitalCells) =>
                LET w == TryExecute(self, Act(m, "drop_at_hospital"))
                    after == Len(hospital_queues[pos[m]]) + 1
                IN  /\ Len(w.hospital_queues[pos[m]]) = after
                    /\ ~w.carrying[m]
                    /\ w.hospital_overflow_events =
                         hospital_overflow_events
                             + (IF after > HospitalCapacity THEN 1 ELSE 0)
                    /\ AdmitPatient(self, pos[m], carrying_survivor[m])
                         = [self EXCEPT
                               !.hospital_queues = w.hospital_queues,
                               !.hospital_overflow_events =
                                   w.hospital_overflow_events])
    /\ [][/\ hospital_overflow_events' =
                hospital_overflow_events + Cardinality(OverflowingNow)
          /\ EndsTick => hospital_overflow_events' = hospital_overflow_events]_vars

\* drops have taken a queue above the soft capacity and were counted, a
\* survivor of that queue was admitted since, and the queue is still longer
\* than the capacity
C24_Witness ==
    /\ phase = "idle"
    /\ rescued >= 1
    /\ hospital_overflow_events >= 2
    /\ \E h \in HospitalCells :
          /\ Len(hospital_queues[h]) > HospitalCapacity
          /\ Len(hospital_queues[h]) + rescued = HospitalCapacity + hospital_overflow_events

(***************************************************************************)
(* The truck's action.                                                     *)
(***************************************************************************)
\* C25: in every reachable world, extinguish by a truck whose cell is
\* burning and whose water is > 0 removes exactly that cell from the fire
\* set, takes 10 from the water, down to 0 at most, adds 1 to
\* fires_extinguished and changes nothing else; when the cell is not burning
\* or the water is 0, it changes nothing.
C25_Extinguish ==
    \A t \in Trucks :
        LET w == TryExecute(self, Act(t, "extinguish"))
        IN  IF pos[t] \in fires /\ water[t] > 0
            THEN w = [self EXCEPT
                         !.fires = fires \ {pos[t]},
                         !.water[t] = IF water[t] >= ExtinguishWater
                                      THEN water[t] - ExtinguishWater ELSE 0,
                         !.fires_extinguished = fires_extinguished + 1]
            ELSE w = self

\* inside a tick: the truck has put out two fires, the second with less
\* than 10 of water left, and stands with no water on a cell that burns
C25_Witness ==
    /\ phase = "exec"
    /\ \E t \in Trucks :
          /\ water[t] = 0
          /\ pos[t] \in fires
          /\ fires_extinguished = 2

(***************************************************************************)
(* The effects of a move.                                                  *)
(***************************************************************************)
\* the moves of an existing entity to a cell of the grid that is not rubble
SuccessfulMoves == {Move(a, t) : a \in Agents, t \in Cells \ Rubble}

\* C26: in every reachable world a move of an entity to a cell of the grid
\* that is not rubble puts the entity on that cell, however far it is and
\* whoever stands there, takes 1 from the battery of a drone, down to 0 at
\* most (a drone whose battery is 0 moves all the same), adds exactly 1 to
\* energy_used and leaves everything else, the water and the carrying state
\* included, as it was.  energy_used grows by exactly 1 in the turn of the
\* command loop that runs such a move and in no other step, so from 0 at
\* construction it is always the number of successful moves so far.
C26_MoveEffects ==
    /\ [](LET before == self
          IN  \A cmd \in SuccessfulMoves :
                LET a == cmd.agent_id
                    w == TryExecute(before, cmd)
                IN  w = [before EXCEPT
                            !.pos[a] = cmd.to,
                            !.cell_order = w.cell_order,
                            !.battery =
                                [d \in Drones |->
                                    IF d # a THEN battery[d]
                                    ELSE IF battery[d] >= MoveBattery
                                    THEN battery[d] - MoveBattery ELSE 0],
                            !.energy_used = energy_used + 1])
    /\ [][energy_used' =
             energy_used
                 + (IF phase = "exec" /\ plan # <<>> /\ plan[1] \in SuccessfulMoves
                    THEN 1 ELSE 0)]_vars

\* the drone has used up its battery and stands with the truck on a cell
\* away from the depot; the next command of the list moves it again
C26_Witness ==
    /\ phase = "exec"
    /\ energy_used >= 2
    /\ battery["drone_0"] = 0
    /\ pos["drone_0"] = pos["truck_0"]
    /\ pos["drone_0"] # Depot
    /\ plan # <<>>
    /\ plan[1] \in SuccessfulMoves
    /\ plan[1].agent_id = "drone_0"

(***************************************************************************)
(* Commands that are passed over.                                          *)
(***************************************************************************)
\* the dict commands with an agent id that no entity has, with a type that
\* is neither move nor act, and the moves whose "to" is missing or has not
\* exactly two coordinates
PassedOver ==
    {cmd \in AllCommands \ {NonDict} : cmd.agent_id \notin Agents}
    \cup {cmd \in AllCommands \ {NonDict} : cmd.type \notin {"move", "act"}}
    \cup {cmd \in MoveCommands : Len(cmd.to) # 2}

\* C27: in every reachable world, a command with an unknown agent_id, with
\* an unknown type, a move without "to" and a move whose "to" has not
\* exactly two coordinates leave the whole world as it was: positions,
\* resources, fires, queues, survivor flags, energy_used and every counter.
C27_PassedOver ==
    LET before == self
    IN  \A cmd \in PassedOver : TryExecute(before, cmd) = before

\* inside the command loop of a later tick, with commands still to run: the
\* truck has moved and put a fire out, fires burn, so there is a world for a
\* command to change
C27_Witness ==
    /\ phase = "exec"
    /\ planned > 0
    /\ time >= 2
    /\ pos["truck_0"] # Depot
    /\ fires_extinguished >= 1
    /\ fires # {}
    /\ water["truck_0"] > 0

(***************************************************************************)
(* The order of a hospital queue.                                          *)
(***************************************************************************)
\* C28: a hospital's queue is first in, first out.  In every step each queue
\* stays as it is, gets one survivor appended at its tail, or loses its head,
\* which is then rescued; the survivors behind the head keep their places
\* in order and none of them is rescued in the step; and a survivor becomes
\* rescued only as the head of a queue.  So a survivor appended after
\* another is never rescued while the other is still queued.
C28_FifoAdmission ==
    [][/\ \A h \in HospitalCells :
             LET queue == hospital_queues[h]
             IN  /\ \/ hospital_queues'[h] = queue
                    \/ \E s \in DOMAIN survivors :
                          hospital_queues'[h] = Append(queue, s)
                    \/ /\ queue # <<>>
                       /\ hospital_queues'[h] = Tail(queue)
                       /\ survivors'[Head(queue)].rescued
                 /\ \A i \in 2 .. Len(queue) : ~survivors'[queue[i]].rescued
       /\ \A s \in DOMAIN survivors :
             (survivors'[s].rescued /\ ~survivors[s].rescued) =>
                 \E h \in HospitalCells :
                     hospital_queues[h] # <<>> /\ Head(hospital_queues[h]) = s]_vars

\* the two survivors dropped first have been admitted, one in each of two
\* ticks, and two or more that were dropped after them wait
C28_Witness ==
    /\ phase = "idle"
    /\ rescued = 2
    /\ \E h \in HospitalCells :
          /\ Len(hospital_queues[h]) >= 2
          /\ \A s \in DOMAIN survivors :
                survivors[s].rescued =>
                    /\ drop_len[s] \in {1, 2}
                    /\ \A i \in 1 .. Len(hospital_queues[h]) :
                          drop_len[hospital_queues[h][i]] > drop_len[s]

(***************************************************************************)
(* Fire spread.                                                            *)
(***************************************************************************)
\* the cells of the grid next to a cell that burns now, the 8 directions
NextToFire == {c \in Cells : \E f \in fires : c \in Neighbours(f)}

\* C29: fire spreads one step in a tick.  Every cell that catches fire in
\* the step that ends a tick is a cell of the grid next, in one of the 8
\* directions, to a cell that burned when the step began, so a cell set
\* alight in the pass sets nothing alight in the same pass; the pass takes
\* no cell out of the fire set; and no other step sets a cell alight.  The
\* cells either spread routine may set alight are cells of that kind.
C29_OneStepSpread ==
    /\ [](SpreadTargets(self) \cup FireDynamicsTargets(self) \subseteq NextToFire)
    /\ [][IF EndsTick
          THEN /\ fires \subseteq fires'
               /\ fires' \ fires \subseteq NextToFire
          ELSE fires' \subseteq fires]_vars

\* the first tick has ended: the fire has taken a cell next to it, and a
\* free cell next to that one, out of reach of the first fire, does not burn
C29_Witness ==
    /\ phase = "idle"
    /\ time = 1
    /\ \E c \in fires \ InitialFires :
          \E n \in (Neighbours(c) \cap Cells) \ Rubble :
              /\ n \notin fires
              /\ \A f \in InitialFires : n \notin Neighbours(f)

(***************************************************************************)
(* Ownership of a survivor.                                                *)
(***************************************************************************)
\* the places of the hospital queues that hold survivor s
QueuePlaces(s) ==
    {place \in HospitalCells \X (1 .. Cardinality(DOMAIN survivors)) :
        /\ place[2] <= Len(hospital_queues[place[1]])
        /\ hospital_queues[place[1]][place[2]] = s}

\* the medics that hold survivor s
Holders(s) == {m \in Medics : carrying_survivor[m] = s}

\* C30: in every reachable state a survivor is in at most one place of the
\* hospital queues and in the hands of at most one medic, never in a queue
\* and in a medic's hands at once; a queued survivor is picked and not
\* rescued; a rescued survivor is in no queue and in no medic's hands.
C30_UniqueOwnership ==
    \A s \in DOMAIN survivors :
        /\ Cardinality(QueuePlaces(s)) <= 1
        /\ Cardinality(Holders(s)) <= 1
        /\ QueuePlaces(s) = {} \/ Holders(s) = {}
        /\ QueuePlaces(s) # {} => survivors[s].picked /\ ~survivors[s].rescued
        /\ survivors[s].rescued => QueuePlaces(s) = {} /\ Holders(s) = {}
        /\ Holders(s) # {} => survivors[s].picked

\* one survivor has gone from the map through the medic's hands and a queue
\* to rescued; the other, dropped after it, is in a queue and the medic's
\* hands are empty
C30_Witness ==
    /\ phase = "idle"
    /\ rescued = 1
    /\ \A m \in Medics : ~carrying[m]
    /\ \E s \in DOMAIN survivors, t \in DOMAIN survivors :
          /\ survivors[s].rescued /\ QueuePlaces(s) = {}
          /\ QueuePlaces(t) # {} /\ ~survivors[t].rescued
          /\ drop_time[s] < drop_time[t]

(***************************************************************************)
(* The grid.                                                               *)
(***************************************************************************)
\* the moves of an entity to a cell off the grid
MovesOffGrid == {Move(a, t) : a \in Agents, t \in OutOfBounds}

\* C31: in every reachable state every entity stands on a cell of the grid
\* and every burning cell is a cell of the grid (0 <= x < width and
\* 0 <= y < height); no move to a cell off the grid takes an entity there,
\* and no outcome of the spread pass sets a cell off the grid alight.
C31_GridBounds ==
    /\ \A a \in DOMAIN pos : InBounds(pos[a][1], pos[a][2])
    /\ \A f \in fires : InBounds(f[1], f[2])
    /\ \A cmd \in MovesOffGrid :
          \A a \in DOMAIN pos :
              LET p == TryExecute(self, cmd).pos[a]
              IN  InBounds(p[1], p[2])
    /\ \A new_fires \in NewFires(self) :
          \A f \in ApplyDynamics(self, new_fires).fires : InBounds(f[1], f[2])

\* after two ticks the fire has reached the far side of the grid, where
\* some of a cell's neighbours lie off the grid, and the truck and the drone
\* stand on cells away from the depot
C31_Witness ==
    /\ phase = "idle"
    /\ time = 2
    /\ \E f \in fires : f[1] = Width - 1
    /\ pos["truck_0"] # Depot
    /\ pos["drone_0"] # Depot

(***************************************************************************)
(* The registry of entities.                                               *)
(***************************************************************************)
\* schedule.agents: the identifiers of the entities that are registered
Registry == DOMAIN pos

\* C32: the registry is fixed after construction.  It holds the three units
\* and the survivors the world was built with, each identifier once (the
\* grid lists each survivor once as well); no step adds or removes an entity
\* or a survivor's record, and a survivor that is dead or rescued is still
\* registered under its identifier.
C32_RegistryFixed ==
    /\ [](/\ Registry = Units \cup Survivors
          /\ DOMAIN survivors = Survivors
          /\ Range(cell_order) = Survivors
          /\ Len(cell_order) = Cardinality(Survivors)
          /\ \A s \in Survivors :
                (survivors[s].dead \/ survivors[s].rescued) => s \in Registry)
    /\ [][/\ DOMAIN pos' = Registry
          /\ DOMAIN survivors' = DOMAIN survivors
          /\ Range(cell_order') = Range(cell_order)]_vars

\* a survivor has died, the other has been rescued, a tick has passed since,
\* and both are registered
C32_Witness ==
    /\ phase = "idle"
    /\ time = MaxTime
    /\ \E s \in Survivors, t \in Survivors :
          /\ survivors[s].dead /\ ~survivors[s].picked
          /\ survivors[t].rescued
          /\ rescue_times # <<>> /\ rescue_times[1] + survivors[t].picked_time < time
          /\ {s, t} \subseteq Registry

(***************************************************************************)
(* The life of a command list.                                             *)
(***************************************************************************)
\* C33: a command list is run in exactly one step() and is gone after it.
\* set_plan stores the list and adds its length to tool_calls, which nothing
\* else changes; entering step() leaves the list as it is, so a step() that
\* no set_plan came before finds none; each turn of the loop runs the first
\* of the commands still to run, once, and drops it, whether it took effect
\* or not; the rest of the tick begins only when none is left and runs no
\* command; between two steps the list is empty, so no command, rejected or
\* not, is there to be applied in a later tick.
C33_NoRetry ==
    /\ [](phase = "idle" => plan = <<>> /\ planned = 0)
    /\ [][/\ IF phase = "idle" /\ phase' = "planned"
             THEN tool_calls' = tool_calls + Len(plan')
             ELSE tool_calls' = tool_calls
          /\ (phase # "exec" /\ phase' = "exec") => plan' = plan
          /\ (phase = "exec" /\ phase' = "exec") =>
                /\ plan # <<>>
                /\ plan' = Tail(plan)
                /\ self' = TryExecute(self, Head(plan))
          /\ (phase = "exec" /\ phase' = "idle") =>
                /\ plan = <<>> /\ plan' = <<>>
                /\ invalid_json' = invalid_json
                /\ energy_used' = energy_used
                /\ pos' = pos]_vars

\* inside the second step(): the one list given so far, of MaxPlan
\* commands, ran in the first step, where one of its commands raised and no
\* move took effect; the second step has no command to run and nothing of
\* the first list has been run again
C33_Witness ==
    /\ phase = "exec"
    /\ time = 2
    /\ plan = <<>>
    /\ tool_calls = MaxPlan
    /\ invalid_json = 1
    /\ energy_used = 0

(***************************************************************************)
(* The medic's hands.                                                      *)
(***************************************************************************)
\* C35: in every reachable state a medic's carrying flag is true exactly
\* when its held reference is a survivor (and not None), and the survivor
\* it holds is picked, not rescued and in no hospital queue.
C35_CarryingConsistent ==
    \A m \in Medics :
        /\ carrying[m] <=> carrying_survivor[m] # None
        /\ carrying_survivor[m] # None =>
              /\ carrying_survivor[m] \in DOMAIN survivors
              /\ survivors[carrying_survivor[m]].picked
              /\ ~survivors[carrying_survivor[m]].rescued
              /\ ~InQueue(carrying_survivor[m])

\* the medic has brought one survivor to a hospital, where it was admitted,
\* and is between two ticks with the other survivor in its hands
C35_Witness ==
    /\ phase = "idle"
    /\ rescued = 1
    /\ \E m \in Medics :
          /\ carrying[m]
          /\ carrying_survivor[m] \in Survivors
          /\ ~survivors[carrying_survivor[m]].rescued
          /\ ~survivors[carrying_survivor[m]].dead

(***************************************************************************)
(* The records of rescue times.                                            *)
(***************************************************************************)
\* C36: in every reachable state there are as many recorded rescue times as
\* the rescued counter says, every recorded time is >= 0, and a survivor
\* that is queued or rescued has a pick-up tick that is not later than the
\* current tick, so that no admission comes before the pick-up.
C36_LatencyBookkeeping ==
    /\ Len(rescue_times) = rescued
    /\ \A i \in 1 .. Len(rescue_times) : rescue_times[i] >= 0
    /\ \A s \in DOMAIN survivors :
          (InQueue(s) \/ survivors[s].rescued) =>
              /\ survivors[s].picked_time # NoTime
              /\ survivors[s].picked_time <= time

\* two survivors have been admitted: the first in the tick it was picked
\* in, the second in a later tick than its pick-up
C36_Witness ==
    /\ phase = "idle"
    /\ rescued = 2
    /\ Len(rescue_times) = 2
    /\ rescue_times[1] = 0
    /\ rescue_times[2] > 0


(***************************************************************************)
(* The water of the truck.                                                 *)
(***************************************************************************)
FullTank == TruckWater \div ExtinguishWater

\* C37: in a world whose one truck starts with 100 units of water, the water
\* is always 100 less 10 for each fire extinguished, so no more than 10
\* fires are ever extinguished, and once 10 are, an extinguish command
\* changes nothing, also on a burning cell.
C37_WaterBudget ==
    \A t \in Trucks :
        /\ water[t] = TruckWater - ExtinguishWater * fires_extinguished
        /\ fires_extinguished <= FullTank
        /\ fires_extinguished = FullTank =>
              TryExecute(self, Act(t, "extinguish")) = self

\* the truck stands on a burning cell with an empty tank after its tenth
\* fire, and the next command of the list is an extinguish
C37_Witness ==
    /\ phase = "exec"
    /\ fires_extinguished = FullTank
    /\ plan # <<>>
    /\ Head(plan) = Act("truck_0", "extinguish")
    /\ water["truck_0"] = 0
    /\ pos["truck_0"] \in fires

(***************************************************************************)
(* Progress of the hospital queues.                                        *)
(***************************************************************************)
\* C38: with a service probability above 0 and a draw that does not fail for
\* ever at a hospital with patients, every survivor that is in a hospital
\* queue is eventually rescued.
C38_EventualRescue ==
    (hospital_service_rate > 0) =>
        \A s \in Survivors :
            [](InQueue(s) => <>(survivors[s].rescued))

\* both survivors were in the same queue, one of them picked up dead, and
\* both have been admitted
C38_Witness ==
    /\ phase = "idle"
    /\ \A h \in HospitalCells : hospital_queues[h] = <<>>
    /\ rescued = Cardinality(Survivors)
    /\ \E s \in Survivors : survivors[s].rescued /\ drop_len[s] > 1
    /\ \E s \in Survivors : survivors[s].rescued /\ survivors[s].dead

(***************************************************************************)
(* The time a survivor has.                                                *)
(***************************************************************************)
\* the calls of schedule.step() so far: the one of the tick in progress is
\* made after the commands
TicksDone == IF phase = "exec" THEN time - 1 ELSE time

\* C39: a survivor created with health h that is never picked up is alive
\* after each of the first h - 1 ticks, with 1 less health per tick, and dead
\* after the h-th; from then on its health and its dead flag do not change.
C39_TimeToDeath ==
    /\ [](\A s \in Survivors :
            ~survivors[s].picked =>
               /\ survivors[s].health = Max(0, InitHealth - TicksDone)
               /\ survivors[s].dead <=> TicksDone >= InitHealth)
    /\ [][\A s \in Survivors :
            survivors[s].dead =>
               /\ survivors'[s].dead
               /\ survivors'[s].health = survivors[s].health]_vars

\* a tick after the one in which a survivor that nobody picked up died
C39_Witness ==
    /\ phase = "idle"
    /\ time = InitHealth + 1
    /\ deaths > 0
    /\ \E s \in Survivors :
          /\ ~survivors[s].picked
          /\ survivors[s].dead
          /\ survivors[s].health = 0

(***************************************************************************)
(* shortest_path.  A heap entry is <<f, g, node, parent>>; heappop returns *)
(* the least entry in Python's tuple order.                                *)
(***************************************************************************)
\* tuple order on (f, g, node, parent), node and parent being (x, y)
TupleLess(a, b) ==
    LET ka == <<a[1], a[2], a[3][1], a[3][2], a[4][1], a[4][2]>>
        kb == <<b[1], b[2], b[3][1], b[3][2], b[4][1], b[4][2]>>
    IN  \E i \in 1 .. 6 :
            /\ ka[i] < kb[i]
            /\ \A j \in 1 .. i - 1 : ka[j] = kb[j]

\* an order that agrees with the tuple order on the priority f and breaks
\* its ties the other way round
TieReversedLess(a, b) ==
    \/ a[1] < b[1]
    \/ a[1] = b[1] /\ TupleLess(b, a)

\* heappop(openq): the entry it returns
HeapMin(openq, pop_order) ==
    CHOOSE t \in openq :
        \A u \in openq \ {t} :
            IF pop_order = "tuple" THEN TupleLess(t, u) ELSE TieReversedLess(t, u)

\* a test that avoids burning cells only
PassableUnlessFire(r, c) == r.cell_types[c] # "fire"

\* routing.py:15-17
Passable(r, c) == r.cell_types[c] \notin Avoid

\* a neighbour loop that goes on to the diagonal cells as well
StepsDiagonal(r, c) ==
    {n \in {<<c[1] + dx, c[2] + dy>> : dx \in {-1, 0, 1}, dy \in {-1, 0, 1}} \ {c} :
        /\ 0 <= n[1] /\ n[1] < r.width /\ 0 <= n[2] /\ n[2] < r.height
        /\ Passable(r, n)}

\* routing.py:31-33: the neighbours the loop goes on to
Steps(r, c) ==
    {n \in {<<c[1] + 1, c[2]>>, <<c[1] - 1, c[2]>>,
            <<c[1], c[2] + 1>>, <<c[1], c[2] - 1>>} :
        /\ 0 <= n[1] /\ n[1] < r.width /\ 0 <= n[2] /\ n[2] < r.height
        /\ Passable(r, n)}

\* routing.py:35: whether the neighbour is pushed
Improves(cost_so_far, n, ng) ==
    n \notin DOMAIN cost_so_far \/ ng < cost_so_far[n]

\* a best-first search that orders the frontier by the heuristic alone
GreedyPriority(r, g, n) == Manhattan(n, r.goal)

\* routing.py:20, 37: the priority an entry is pushed with
Priority(r, g, n) == g + Manhattan(n, r.goal)

RECURSIVE Search(_, _, _, _)
\* routing.py:24-37: the while loop; the value is came when it ends
Search(r, openq, came, cost_so_far) ==
    IF openq = {} THEN came
    ELSE LET top == HeapMin(openq, r.pop_order)
             g == top[2]
             cur == top[3]
             came2 == IF cur \in DOMAIN came THEN came ELSE came @@ (cur :> top[4])
         IN  IF cur = r.goal THEN came2
             ELSE LET pushed == {n \in Steps(r, cur) : Improves(cost_so_far, n, g + 1)}
                      cost2 == [n \in DOMAIN cost_so_far \cup pushed |->
                                  IF n \in pushed THEN g + 1 ELSE cost_so_far[n]]
                      entries == {<<Priority(r, g + 1, n), g + 1, n, cur>> :
                                     n \in pushed}
                  IN  Search(r, (openq \ {top}) \cup entries, came2, cost2)

RECURSIVE Reconstruct(_, _, _)
\* routing.py:44-47: the cells from node back to start, node first
Reconstruct(r, came, node) ==
    IF node = r.start THEN <<node>>
    ELSE LET prev == IF node \in DOMAIN came THEN came[node] ELSE r.start
         IN  <<node>> \o Reconstruct(r, came, prev)

Reverse(q) == [i \in 1 .. Len(q) |-> q[Len(q) + 1 - i]]

\* routing.py:49
PathCost(path) == Len(path)

\* a search that gives up when the start cell is not passable
ShortestPathTestingStart(r) ==
    LET came == Search(r, {<<Priority(r, 0, r.start), 0, r.start, NoParent>>},
                       <<>>, (r.start :> 0))
    IN  IF ~Passable(r, r.start) \/ (r.goal \notin DOMAIN came /\ r.goal # r.start)
        THEN [status |-> "blocked", path |-> <<>>, cost |-> NoCost]
        ELSE LET path == Reverse(Reconstruct(r, came, r.goal))
             IN  [status |-> "ok", path |-> path, cost |-> PathCost(path)]

\* routing.shortest_path
ShortestPath(r) ==
    LET came == Search(r, {<<Priority(r, 0, r.start), 0, r.start, NoParent>>},
                       <<>>, (r.start :> 0))
    IN  IF r.goal \notin DOMAIN came /\ r.goal # r.start
        THEN [status |-> "blocked", path |-> <<>>, cost |-> NoCost]
        ELSE LET path == Reverse(Reconstruct(r, came, r.goal))
             IN  [status |-> "ok", path |-> path, cost |-> PathCost(path)]

\* the grids explored: GridSide x GridSide with up to MaxBlocked rubble
\* cells, and the open 4 x 5 grid
Layouts(W, H, most) ==
    {[c \in GridCells(W, H) |-> IF c \in rubble THEN "rubble" ELSE "empty"] :
        rubble \in {b \in SUBSET GridCells(W, H) : Cardinality(b) <= most}}

Calls ==
    {[width |-> GridSide, height |-> GridSide, cell_types |-> ct,
      start |-> a, goal |-> b, pop_order |-> o, result |-> NoResult] :
        ct \in Layouts(GridSide, GridSide, MaxBlocked),
        a \in GridCells(GridSide, GridSide),
        b \in GridCells(GridSide, GridSide), o \in {"tuple", "reversed"}}
    \cup
    {[width |-> 4, height |-> 5, cell_types |-> ct, start |-> a, goal |-> b,
      pop_order |-> "tuple", result |-> NoResult] :
        ct \in Layouts(4, 5, 0), a \in GridCells(4, 5), b \in GridCells(4, 5)}

InitPath ==
    /\ Constructed(InitialFires)
    /\ hospital_service_rate = 30
    /\ routing = NoCall

\* the caller builds the arguments
Prepare(r) ==
    /\ routing = NoCall
    /\ routing' = r
    /\ UNCHANGED <<phase, planned, plan, world_vars, twin>>

\* shortest_path(model_like, start, goal) returns
CallShortestPath ==
    /\ routing # NoCall
    /\ routing.result = NoResult
    /\ routing' = [routing EXCEPT !.result = ShortestPath(routing)]
    /\ UNCHANGED <<phase, planned, plan, world_vars, twin>>

NextPath ==
    \/ routing = NoCall /\ \E r \in Calls : Prepare(r)
    \/ CallShortestPath

SpecPath == InitPath /\ [][NextPath]_vars

Returned == routing.result # NoResult
Blocked == {c \in DOMAIN routing.cell_types : routing.cell_types[c] \in Avoid}

\* the cells one 4-connected step from c that are on the grid and not blocked
OpenNeighbours(c) ==
    {n \in DOMAIN routing.cell_types :
        /\ Abs(n[1] - c[1]) + Abs(n[2] - c[2]) = 1
        /\ n \notin Blocked}

RECURSIVE Flood(_, _)
\* breadth-first reference: the distance of every cell that start reaches by
\* 4-connected steps onto cells that are not avoided
Flood(dist, d) ==
    LET frontier == {c \in DOMAIN dist : dist[c] = d}
        next == {n \in UNION {OpenNeighbours(c) : c \in frontier} :
                    n \notin DOMAIN dist}
    IN  IF next = {} THEN dist
        ELSE Flood([c \in DOMAIN dist \cup next |->
                      IF c \in next THEN d + 1 ELSE dist[c]], d + 1)

Distances == Flood((routing.start :> 0), 0)

\* C9: with status ok, cost is the number of steps of the path (its cells
\* minus one); on a grid without obstacles it is the Manhattan distance and
\* the path has Manhattan distance + 1 cells.
C9_PathCost ==
    (Returned /\ routing.result.status = "ok") =>
        /\ routing.result.cost = Len(routing.result.path) - 1
        /\ Blocked = {} =>
              /\ routing.result.cost = Manhattan(routing.start, routing.goal)
              /\ Len(routing.result.path)
                     = Manhattan(routing.start, routing.goal) + 1

\* what the code returns instead: cost counts the cells of the path
PathCostIsCells ==
    (Returned /\ routing.result.status = "ok") =>
        /\ routing.result.cost = Len(routing.result.path)
        /\ Blocked = {} =>
              Len(routing.result.path)
                  = Manhattan(routing.start, routing.goal) + 1

\* C10: whenever start reaches goal, the returned path has as few steps as
\* any path, whichever way ties between entries of equal priority go.
C10_PathOptimal ==
    (Returned /\ routing.goal \in DOMAIN Distances) =>
        /\ routing.result.status = "ok"
        /\ Len(routing.result.path) - 1 = Distances[routing.goal]

\* a path that had to go round rubble
C10_Witness ==
    /\ Returned
    /\ routing.result.status = "ok"
    /\ Blocked # {}
    /\ Len(routing.result.path) - 1 > Manhattan(routing.start, routing.goal)
    /\ Len(routing.result.path) - 1 = Distances[routing.goal]

\* a path in the strict sense: start itself is not blocked and goal is
\* reached from it over cells that are not blocked
StrictPathExists ==
    routing.start \notin Blocked /\ routing.goal \in DOMAIN Distances

\* C11 as stated: for start # goal, the result is blocked, with an empty path
\* and no cost, exactly when no path from start to goal through non-blocked
\* cells of the grid exists.
C11_Original ==
    (Returned /\ routing.start # routing.goal) =>
        /\ routing.result.status = "blocked" <=> ~StrictPathExists
        /\ routing.result.status = "blocked" =>
              routing.result.path = <<>> /\ routing.result.cost = NoCost

\* the returned cells start at start, end at goal, and each one after the
\* first is one step from the one before and not blocked
WalksToGoal(path) ==
    /\ path # <<>>
    /\ path[1] = routing.start
    /\ path[Len(path)] = routing.goal
    /\ \A i \in 2 .. Len(path) : path[i] \in OpenNeighbours(path[i - 1])

\* C11, amended: the start cell itself is never tested.  The result is
\* blocked, with an empty path and no cost, exactly when start # goal and
\* goal is not reached from start by 4-connected steps onto non-blocked
\* cells of the grid; otherwise it is ok with such a walk from start to goal.
C11_PathBlocked ==
    Returned =>
        /\ routing.result.status = "blocked" <=>
              (routing.start # routing.goal /\ routing.goal \notin DOMAIN Distances)
        /\ routing.result.status = "blocked" =>
              routing.result.path = <<>> /\ routing.result.cost = NoCost
        /\ routing.result.status # "blocked" =>
              routing.result.status = "ok" /\ WalksToGoal(routing.result.path)

\* a goal that is not rubble itself and has rubble on every side was asked
\* for from another open cell
C11_Witness ==
    /\ Returned
    /\ routing.result.status = "blocked"
    /\ routing.start \notin Blocked
    /\ routing.goal \notin Blocked
    /\ routing.start # routing.goal
    /\ \A n \in DOMAIN routing.cell_types :
          Abs(n[1] - routing.goal[1]) + Abs(n[2] - routing.goal[2]) = 1
              => n \in Blocked

\* C34: a path returned with status ok for a start other than the goal
\* begins at start and ends at goal, each of its cells is one 4-connected
\* step from the cell before, every cell is on the grid, and no cell after
\* the first has a kind that is avoided.
C34_PathValid ==
    (/\ Returned
     /\ routing.result.status = "ok"
     /\ routing.start # routing.goal) =>
        LET path == routing.result.path
        IN  /\ Len(path) >= 2
            /\ path[1] = routing.start
            /\ path[Len(path)] = routing.goal
            /\ \A i \in 1 .. Len(path) :
                  /\ 0 <= path[i][1] /\ path[i][1] < routing.width
                  /\ 0 <= path[i][2] /\ path[i][2] < routing.height
            /\ \A i \in 2 .. Len(path) :
                  /\ Manhattan(path[i - 1], path[i]) = 1
                  /\ routing.cell_types[path[i]] \notin Avoid

\* a path of several steps that leaves a start cell of an avoided kind and
\* turns round a rubble cell on its way
C34_Witness ==
    /\ Returned
    /\ routing.result.status = "ok"
    /\ routing.start \in Blocked
    /\ Len(routing.result.path) >= 4
    /\ Len(routing.result.path) - 1 > Manhattan(routing.start, routing.goal)

\* the call with the kind of the start cell changed from passable to avoided
\* or back
StartSwapped ==
    [routing EXCEPT
        !.cell_types[routing.start] = IF @ \in Avoid THEN "empty" ELSE "rubble",
        !.result = NoResult]

\* C40: shortest_path with start equal to goal returns status "ok" and the
\* path [start], also when the kind of the start cell is one of those avoided;
\* for any start and goal the result does not depend on whether the start
\* cell is passable.
C40_DegeneratePath ==
    Returned =>
        /\ routing.start = routing.goal =>
              /\ routing.result.status = "ok"
              /\ routing.result.path = <<routing.start>>
        /\ ShortestPath(StartSwapped) = routing.result

\* a call from a rubble cell to itself has returned
C40_Witness ==
    /\ Returned
    /\ routing.start = routing.goal
    /\ routing.start \in Blocked
    /\ routing.result.status = "ok"
    /\ routing.result.cost = 1

=============================================================================
